---------------------------- MODULE Spec2Model ----------------------------
(***************************************************************************)
(* clustercheck: a cluster health-check aggregator.                        *)
(*                                                                         *)
(* The model follows the Go sources: main (flag dispatch and exit code),   *)
(* gatecheck.GateCheck and runPrometheusChecks, monitoringcheck.Run and    *)
(* QueryPrometheus, podcheck.CheckPods, fluxcheck.CheckFlux and            *)
(* common.GetCurrentContext.  The external systems (kubeconfig file,       *)
(* Kubernetes API, Prometheus backend, Bitwarden CLI) are the environment: *)
(* their answers are drawn from small sets.                                *)
(***************************************************************************)
EXTENDS Integers, Sequences, FiniteSets, TLC

(***************************************************************************)
(* Bounds of the model (not program constants).                            *)
(***************************************************************************)
\* at most this many pods are returned by one pod listing
MaxPods == 2
\* at most this many HelmReleases, and this many Kustomizations, are listed
MaxFluxResources == 1
\* at most this many queries of one run get the backend's alternative answer
MaxAlt == 1
\* the score aggregator is exercised alone on at most this many outcomes
MaxOutcomes == 14

(***************************************************************************)
(* float64, non-negative and finite.  A value is sig * 2^(exp - 52) with   *)
(* the 53-bit significand sig = hi * Limb^2 + mid * Limb + lo held in      *)
(* three limbs of 18 bits (hi in 2^16 .. 2^17 - 1), since the integers of  *)
(* the model checker have 32 bits.  Zero has all fields 0.  Rounding is    *)
(* IEEE 754 round-to-nearest, ties to even, as Go's float64 arithmetic.    *)
(***************************************************************************)
RECURSIVE Pow2(_)
Pow2(k) == IF k = 0 THEN 1 ELSE 2 * Pow2(k - 1)

Limb == Pow2(18)

F64Zero == [exp |-> 0, hi |-> 0, mid |-> 0, lo |-> 0]

\* the next float64 above x (x > 0): the significand plus one, renormalised
F64Succ(x) ==
    IF x.lo + 1 < Limb THEN [x EXCEPT !.lo = x.lo + 1]
    ELSE IF x.mid + 1 < Limb THEN [x EXCEPT !.lo = 0, !.mid = x.mid + 1]
    ELSE IF x.hi + 1 < Pow2(17) THEN [x EXCEPT !.lo = 0, !.mid = 0, !.hi = x.hi + 1]
    ELSE [exp |-> x.exp + 1, hi |-> Pow2(16), mid |-> 0, lo |-> 0]

\* the next float64 below x (x > 0 and not the smallest normal number)
F64Pred(x) ==
    IF x.lo > 0 THEN [x EXCEPT !.lo = x.lo - 1]
    ELSE IF x.mid > 0 THEN [x EXCEPT !.lo = Limb - 1, !.mid = x.mid - 1]
    ELSE IF x.hi > Pow2(16) THEN [x EXCEPT !.lo = Limb - 1, !.mid = Limb - 1, !.hi = x.hi - 1]
    ELSE [exp |-> x.exp - 1, hi |-> Pow2(17) - 1, mid |-> Limb - 1, lo |-> Limb - 1]

\* float64(p) / float64(n) for ints 0 <= p < 4096, 0 < n < 4096: both
\* conversions are exact, so this is the correctly rounded quotient p/n
F64DivInts(p, n) ==
    IF p = 0 THEN F64Zero
    ELSE LET k   == CHOOSE i \in 0..12 : p * Pow2(i) >= n /\ (i = 0 \/ p * Pow2(i - 1) < n)
             j   == CHOOSE i \in 0..12 : (i = 0 \/ n * Pow2(i) <= p) /\ n * Pow2(i + 1) > p
             num == p * Pow2(k)
             den == n * Pow2(j)
             a2  == num * Pow2(16)
             a1  == (a2 % den) * Limb
             a0  == (a1 % den) * Limb
             g   == 2 * (a0 % den)
             x   == [exp |-> j - k, hi |-> a2 \div den, mid |-> a1 \div den,
                     lo |-> a0 \div den]
             up  == g >= den /\ (g > den \/ x.lo % 2 = 1)
         IN  IF up THEN F64Succ(x) ELSE x

\* float64(c) for an int 0 <= c < 4096 (exact)
F64FromInt(c) == F64DivInts(c, 1)

\* x * float64(c) for an int 0 < c < 4096, correctly rounded
F64MulInt(x, c) ==
    IF x.hi = 0 THEN F64Zero
    ELSE LET t0   == x.lo * c
             t1   == x.mid * c + (t0 \div Limb)
             p2   == x.hi * c + (t1 \div Limb)
             p1   == t1 % Limb
             p0   == t0 % Limb
             s    == CHOOSE i \in 0..12 : Pow2(16 + i) <= p2 /\ p2 < Pow2(17 + i)
             D    == Pow2(s)
             m    == [exp |-> x.exp + s,
                      hi  |-> p2 \div D,
                      mid |-> (p1 \div D) + (p2 % D) * (Limb \div D),
                      lo  |-> (p0 \div D) + (p1 % D) * (Limb \div D)]
             low  == 2 * (p0 % D)
             up   == s > 0 /\ low >= D /\ (low > D \/ m.lo % 2 = 1)
         IN  IF up THEN F64Succ(m) ELSE m

\* x >= y
F64Geq(x, y) ==
    IF y.hi = 0 THEN TRUE
    ELSE IF x.hi = 0 THEN FALSE
    ELSE IF x.exp # y.exp THEN x.exp > y.exp
    ELSE IF x.hi # y.hi THEN x.hi > y.hi
    ELSE IF x.mid # y.mid THEN x.mid > y.mid
    ELSE x.lo >= y.lo

\* sign of x - a/b in exact arithmetic (-1, 0 or 1), for a float64 x that is
\* 0 or in [1, 128) and ints 0 <= a < 4096, 0 < b < 4096:
\* x >= a/b  iff  sig * b >= a * 2^(52 - exp)
F64CmpRat(x, a, b) ==
    IF x.hi = 0 THEN (IF a = 0 THEN 0 ELSE -1)
    ELSE LET t0 == x.lo * b
             t1 == x.mid * b + (t0 \div Limb)
             l2 == x.hi * b + (t1 \div Limb)
             l1 == t1 % Limb
             l0 == t0 % Limb
             r2 == a * Pow2(16 - x.exp)
         IN  IF l2 # r2 THEN (IF l2 > r2 THEN 1 ELSE -1)
             ELSE IF l1 # 0 \/ l0 # 0 THEN 1
             ELSE 0

(***************************************************************************)
(* Go strings.  A string is an atom ("" is the empty string); a string     *)
(* built by concatenation or formatting is the tuple of its parts, and the *)
(* empty tuple is the empty string.  An error is the tuple of the parts of *)
(* its text; the nil error is the empty tuple.                             *)
(***************************************************************************)
NoErr == <<>>

Digits == <<"0", "1", "2", "3", "4", "5", "6", "7", "8", "9">>

\* strconv of a small int, as %d prints it
Itoa(k) == Digits[k + 1]

\* the spelling of the strings whose characters the program inspects
Chars(s) ==
    CASE s = "FLUENT"          -> <<"F","L","U","E","N","T">>
      [] s = "FLUENTBIT_OK"    -> <<"F","L","U","E","N","T","B","I","T","_","O","K">>
      [] s = "FLUENTD_OK"      -> <<"F","L","U","E","N","T","D","_","O","K">>
      [] s = "FLUENTBITERRORS" -> <<"F","L","U","E","N","T","B","I","T","E","R","R","O","R","S">>
      [] s = "FLUENTDERRORS"   -> <<"F","L","U","E","N","T","D","E","R","R","O","R","S">>
      [] s = "FLUEN"           -> <<"F","L","U","E","N">>
      [] s = "fluentbit"       -> <<"f","l","u","e","n","t","b","i","t">>
      [] s = "NOFLUENT"        -> <<"N","O","F","L","U","E","N","T">>
      [] s = "APISERVER"       -> <<"A","P","I","S","E","R","V","E","R">>
      [] s = "CLUSTER"         -> <<"C","L","U","S","T","E","R">>
      [] s = "GOLDPINGER"      -> <<"G","O","L","D","P","I","N","G","E","R">>
      [] s = "KUBEDNS"         -> <<"K","U","B","E","D","N","S">>
      [] s = "KUBELET"         -> <<"K","U","B","E","L","E","T">>
      [] s = "NETWORKOPERATOR" -> <<"N","E","T","W","O","R","K","O","P","E","R","A","T","O","R">>
      [] s = "NODE"            -> <<"N","O","D","E">>
      [] s = "STORAGECHECK"    -> <<"S","T","O","R","A","G","E","C","H","E","C","K">>
      [] s = "PROMETHEUSAGENT" -> <<"P","R","O","M","E","T","H","E","U","S","A","G","E","N","T">>
      [] s = "SYSTEMPODS"      -> <<"S","Y","S","T","E","M","P","O","D","S">>
      [] s = ""                -> <<>>

\* strings.HasPrefix
HasPrefix(s, prefix) ==
    LET cs == Chars(s)
        cp == Chars(prefix)
    IN  Len(cp) <= Len(cs) /\ SubSeq(cs, 1, Len(cp)) = cp

(***************************************************************************)
(* The environment: what the external systems answer.                      *)
(***************************************************************************)
\* the kubeconfig file the probes load: it loads and yields a client
\* ("ok"), cannot be loaded ("unloadable"), or loads but yields no client
\* ("unusable")
KubeConfigs == {"ok", "unloadable", "unusable"}

\* what $HOME/.kube/config yields as the current context: a name, or a load
\* error
ContextAnswers == {[err |-> NoErr, name |-> "prod"],
                   [err |-> <<"open .kube/config: no such file or directory">>, name |-> ""]}

PodPhases == {"Running", "Succeeded", "Pending", "Failed"}

\* a pod listing of the API server: an error, or the phases of the pods
PodListings ==
    {[err |-> <<"connection refused">>, items |-> <<>>]} \cup
    {[err |-> NoErr, items |-> l] : l \in UNION {[1..n -> PodPhases] : n \in 0..MaxPods}}

Condition(type, status) == [Type |-> type, Status |-> status]

\* the status.conditions of a HelmRelease or Kustomization
ConditionLists ==
    { <<>>,
      <<Condition("Ready", "True")>>,
      <<Condition("Ready", "False")>>,
      <<Condition("Ready", "Unknown")>>,
      <<Condition("Reconciling", "True")>>,
      <<Condition("Reconciling", "True"), Condition("Ready", "True")>>,
      <<Condition("Ready", "False"), Condition("Ready", "True")>> }

\* a listing of HelmReleases or of Kustomizations: an error, or the
\* conditions of each resource
FluxListings ==
    {[err |-> <<"no matches for kind">>, items |-> <<>>]} \cup
    {[err |-> NoErr, items |-> l] :
        l \in UNION {[1..n -> ConditionLists] : n \in 0..MaxFluxResources}}

\* the outcome of `bw get item': the command fails, prints something that
\* is no JSON, or prints the item
BitwardenAnswers == {"cmdfail", "garbage", "item"}

\* a JSON value at position 1 of a series' "value" array: a string, or
\* anything else (a number, null, or no second element at all)
JString(s) == [isString |-> TRUE, str |-> s]
JOther == [isString |-> FALSE, str |-> ""]

\* one answer of the Prometheus backend to a query: the transport outcome,
\* the HTTP status, whether the body is JSON of the response's shape, and
\* Value[1] of each series of data.result
Answer(net, status, json, series) ==
    [net |-> net, status |-> status, json |-> json, series |-> series]

Healthy == Answer("ok", 200, TRUE, <<JString("1")>>)
Unhealthy == Answer("ok", 200, TRUE, <<JString("0")>>)
Fraction == Answer("ok", 200, TRUE, <<JString("0.5")>>)
NoSeries == Answer("ok", 200, TRUE, <<>>)
Refused == Answer("connection refused", 0, FALSE, <<>>)
Timeout == Answer("Client.Timeout exceeded", 0, FALSE, <<>>)
ErrorPage == Answer("ok", 500, FALSE, <<>>)
NonString == Answer("ok", 200, TRUE, <<JOther>>)

PromAnswers == {Healthy, Unhealthy, Fraction, NoSeries, Refused, Timeout, ErrorPage, NonString}

\* the backend of one run: it gives the answer base to every query, except
\* to at most MaxAlt queries, which get the answer alt; one of the two is the
\* healthy answer
PromBackends ==
    {<<b, a>> \in PromAnswers \X PromAnswers : b # a /\ Healthy \in {b, a}}

(***************************************************************************)
(* The collaborators, as functions of the environment's answer.            *)
(***************************************************************************)
\* common.GetCurrentContext: (name, err)
GetCurrentContext(answer) ==
    IF answer.err # NoErr THEN [name |-> "", err |-> answer.err]
    ELSE [name |-> answer.name, err |-> NoErr]

\* a count of the pods in phase Failed only
RECURSIVE FailedPodsStrict(_)
FailedPodsStrict(items) ==
    IF items = <<>> THEN 0
    ELSE (IF Head(items) = "Failed" THEN 1 ELSE 0) + FailedPodsStrict(Tail(items))

\* the pods counted as failed: every phase but Running and Succeeded
RECURSIVE FailedPods(_)
FailedPods(items) ==
    IF items = <<>> THEN 0
    ELSE (IF Head(items) = "Running" \/ Head(items) = "Succeeded" THEN 0 ELSE 1)
         + FailedPods(Tail(items))

\* a CheckPods that lists no pods when the kubeconfig cannot be loaded
CheckPodsWithoutConfig(kubeconfig, listing) ==
    IF kubeconfig = "unloadable" THEN NoErr
    ELSE IF kubeconfig = "unusable" THEN <<"failed to create clientset">>
    ELSE IF listing.err # NoErr THEN <<"failed to list pods: ">> \o listing.err
    ELSE IF FailedPods(listing.items) > 0
         THEN <<Itoa(FailedPods(listing.items)), " pods not in Running or Succeeded state">>
    ELSE NoErr

\* podcheck.CheckPods: the error returned (NoErr: nil)
CheckPods(kubeconfig, listing) ==
    IF kubeconfig = "unloadable" THEN <<"failed to build config">>
    ELSE IF kubeconfig = "unusable" THEN <<"failed to create clientset">>
    ELSE IF listing.err # NoErr THEN <<"failed to list pods: ">> \o listing.err
    ELSE IF FailedPods(listing.items) > 0
         THEN <<Itoa(FailedPods(listing.items)), " pods not in Running or Succeeded state">>
    ELSE NoErr

\* the loop over one resource's conditions: "ready" at the first Ready
\* condition when its status is True, "failed" when it is anything else,
\* "none" when no condition has type Ready
RECURSIVE ReadyCondition(_)
ReadyCondition(conds) ==
    IF conds = <<>> THEN "none"
    ELSE IF Head(conds).Type = "Ready"
         THEN (IF Head(conds).Status = "True" THEN "ready" ELSE "failed")
    ELSE ReadyCondition(Tail(conds))

\* what one resource adds to failedResources
FailedResource(conds) ==
    IF ReadyCondition(conds) = "failed" THEN 1
    ELSE IF ReadyCondition(conds) # "ready" /\ Len(conds) = 0 THEN 1
    ELSE 0

RECURSIVE FailedResources(_)
FailedResources(items) ==
    IF items = <<>> THEN 0
    ELSE FailedResource(Head(items)) + FailedResources(Tail(items))

\* a CheckFlux that fails when it finds no resource at all
CheckFluxNonEmpty(kubeconfig, helmReleases, kustomizations) ==
    LET failed == FailedResources(helmReleases.items) + FailedResources(kustomizations.items)
    IN  IF kubeconfig = "unloadable" THEN <<"failed to build config">>
        ELSE IF kubeconfig = "unusable" THEN <<"failed to create client">>
        ELSE IF helmReleases.err # NoErr
             THEN <<"failed to list HelmReleases: ">> \o helmReleases.err
        ELSE IF kustomizations.err # NoErr
             THEN <<"failed to list Kustomizations: ">> \o kustomizations.err
        ELSE IF failed > 0 THEN <<Itoa(failed), " resources not Ready">>
        ELSE IF Len(helmReleases.items) + Len(kustomizations.items) = 0
             THEN <<"no resources found">>
        ELSE NoErr

\* fluxcheck.CheckFlux: the error returned (NoErr: nil)
CheckFlux(kubeconfig, helmReleases, kustomizations) ==
    LET failed == FailedResources(helmReleases.items) + FailedResources(kustomizations.items)
    IN  IF kubeconfig = "unloadable" THEN <<"failed to build config">>
        ELSE IF kubeconfig = "unusable" THEN <<"failed to create client">>
        ELSE IF helmReleases.err # NoErr
             THEN <<"failed to list HelmReleases: ">> \o helmReleases.err
        ELSE IF kustomizations.err # NoErr
             THEN <<"failed to list Kustomizations: ">> \o kustomizations.err
        ELSE IF failed > 0 THEN <<Itoa(failed), " resources not Ready">>
        ELSE NoErr

\* a QueryPrometheus that reads the value of the last series
QueryPrometheusLast(answer) ==
    IF answer.net # "ok"
    THEN [value |-> "0", err |-> <<answer.net>>, panic |-> FALSE]
    ELSE IF ~answer.json
    THEN [value |-> "0", err |-> <<"invalid character">>, panic |-> FALSE]
    ELSE IF Len(answer.series) > 0
    THEN (IF answer.series[Len(answer.series)].isString
          THEN [value |-> answer.series[Len(answer.series)].str, err |-> NoErr, panic |-> FALSE]
          ELSE [value |-> "0", err |-> NoErr, panic |-> TRUE])
    ELSE [value |-> "0", err |-> NoErr, panic |-> FALSE]

\* monitoringcheck.QueryPrometheus: (value, err), or a run-time panic of the
\* type assertion Value[1].(string)
QueryPrometheus(answer) ==
    IF answer.net # "ok"
    THEN [value |-> "0", err |-> <<answer.net>>, panic |-> FALSE]
    ELSE IF ~answer.json
    THEN [value |-> "0", err |-> <<"invalid character">>, panic |-> FALSE]
    ELSE IF Len(answer.series) > 0
    THEN (IF answer.series[1].isString
          THEN [value |-> answer.series[1].str, err |-> NoErr, panic |-> FALSE]
          ELSE [value |-> "0", err |-> NoErr, panic |-> TRUE])
    ELSE [value |-> "0", err |-> NoErr, panic |-> FALSE]

(***************************************************************************)
(* The static query tables.  A query expression is the tuple of its parts: *)
(* the literal text around the cluster identifier, which is itself a tuple *)
(* of parts.                                                               *)
(***************************************************************************)
PrometheusQuery(description, query) == [Description |-> description, Query |-> query]

\* the tail of both tables, from GOLDPINGER on
CommonQueries(cluster) ==
    << PrometheusQuery("GOLDPINGER",
           <<"avg(goldpinger_cluster_health_total{cluster=\"">> \o cluster \o <<"\"})">>),
       PrometheusQuery("KUBEDNS",
           <<"avg(up{job=\"kube-dns\", cluster=\"">> \o cluster \o <<"\"})">>),
       PrometheusQuery("KUBELET",
           <<"clamp((count(up{job=\"kubelet\", cluster=\"">> \o cluster \o <<"\"}) > 3),1,1)">>),
       PrometheusQuery("NETWORKOPERATOR",
           <<"clamp(avg(nwop_netlink_routes_fib{protocol=\"bgp\",vrf=\"main\",cluster=\"">>
           \o cluster \o <<"\"}),1,1)">>),
       PrometheusQuery("NODE",
           <<"min(kube_node_status_condition{condition=\"Ready\",status=\"true\",cluster=\"">>
           \o cluster \o <<"\"})">>),
       PrometheusQuery("STORAGECHECK",
           <<"clamp((increase(storage_check_success_total{cluster=\"">> \o cluster
           \o <<"\"}[1h]) > 1),1,1) OR (storage_check_failure_total{cluster=\"">> \o cluster
           \o <<"\"} > 0)">>),
       PrometheusQuery("PROMETHEUSAGENT",
           <<"avg(up{job=\"prometheus-agent\",cluster=\"">> \o cluster \o <<"\"})">>),
       PrometheusQuery("SYSTEMPODS",
           <<"clamp(sum(kube_pod_status_phase{namespace=~\".*-system\", phase!~\"Running|Succeeded\",cluster=\"">>
           \o cluster \o <<"\"} == 0),1,1)">>) >>

\* a head of the tables whose CLUSTER query takes the resolved identifier
HeadQueriesResolved(cluster, shortCluster) ==
    << PrometheusQuery("APISERVER",
           <<"avg(up{job=\"kube-apiserver\",cluster=\"">> \o cluster \o <<"\"})">>),
       PrometheusQuery("CLUSTER",
           <<"capi_cluster_status_phase{phase=\"Provisioned\", tenantcluster=\"">>
           \o cluster \o <<"\"} == 1">>) >>

\* the head of both tables
HeadQueries(cluster, shortCluster) ==
    << PrometheusQuery("APISERVER",
           <<"avg(up{job=\"kube-apiserver\",cluster=\"">> \o cluster \o <<"\"})">>),
       PrometheusQuery("CLUSTER",
           <<"capi_cluster_status_phase{phase=\"Provisioned\", tenantcluster=\"">>
           \o shortCluster \o <<"\"} == 1">>) >>

\* a table of runPrometheusChecks without its two Fluent entries
GateQueriesWithoutFluent(cluster, shortCluster) ==
    HeadQueries(cluster, shortCluster) \o CommonQueries(cluster)

\* the table of runPrometheusChecks
GateQueries(cluster, shortCluster) ==
    HeadQueries(cluster, shortCluster)
    \o << PrometheusQuery("FLUENTBIT_OK",
              <<"count(max(fluentbit_output_errors_total{cluster=\"">> \o cluster \o <<"\"}) + 1)">>),
          PrometheusQuery("FLUENTD_OK",
              <<"count(max(fluentd_output_status_num_errors{cluster=\"">> \o cluster \o <<"\"}) + 1)">>) >>
    \o CommonQueries(cluster)

\* the table of Run
RunQueries(cluster, shortCluster) ==
    HeadQueries(cluster, shortCluster)
    \o << PrometheusQuery("FLUENTBITERRORS",
              <<"rate(fluentbit_output_errors_total{cluster=\"">> \o cluster \o <<"\"}[1h])) > 0">>),
          PrometheusQuery("FLUENTDERRORS",
              <<"avg(fluentd_output_status_num_errors{cluster=\"">> \o cluster \o <<"\"}) > 0">>) >>
    \o CommonQueries(cluster)

(***************************************************************************)
(* The configuration both runPrometheusChecks and Run resolve before the   *)
(* first query.                                                            *)
(***************************************************************************)
\* the cluster identifier of the queries: the context, the -f suffix, the
\* CLUSTERCHECK_FQDN suffix, and the CLUSTER override
ResolveCluster(shortCluster, fqdn, env) ==
    LET c1 == IF fqdn # "" THEN shortCluster \o <<".", fqdn>> ELSE shortCluster
        c2 == IF env.CLUSTERCHECK_FQDN # "" THEN c1 \o <<".", env.CLUSTERCHECK_FQDN>> ELSE c1
    IN  IF env.CLUSTER # "" THEN <<env.CLUSTER>> ELSE c2

\* the Prometheus endpoint: the static one, or PROMETHEUS_URL
ResolvePrometheus(env) ==
    IF env.PROMETHEUS_URL # "" THEN env.PROMETHEUS_URL ELSE "https://127.0.0.1:9090"

\* the login of the Bitwarden item the run uses
BitwardenLogin == [Username |-> "bw-user", Password |-> "bw-pass"]

(***************************************************************************)
(* gatecheck: CheckResult, GateCheckResult and the score.                  *)
(***************************************************************************)
CheckResult(name, passed, message) ==
    [Name |-> name, Passed |-> passed, Message |-> message]

\* &GateCheckResult{CheckResults: []CheckResult{}}
NewGateCheckResult ==
    [TotalChecks |-> 0, PassedChecks |-> 0, FailedChecks |-> 0,
     HealthScore |-> F64Zero, CheckResults |-> <<>>, OverallPassed |-> FALSE]

\* a check appended and counted as passed or failed, but not in TotalChecks
RecordWithoutTotal(result, check) ==
    [result EXCEPT !.CheckResults = Append(@, check),
                   !.PassedChecks = IF check.Passed THEN @ + 1 ELSE @,
                   !.FailedChecks = IF check.Passed THEN @ ELSE @ + 1]

\* a check appended and counted in TotalChecks and PassedChecks only
RecordNoFailures(result, check) ==
    [result EXCEPT !.CheckResults = Append(@, check),
                   !.TotalChecks = @ + 1,
                   !.PassedChecks = IF check.Passed THEN @ + 1 ELSE @]

\* one check appended to the result and counted
Record(result, check) ==
    [result EXCEPT !.CheckResults = Append(@, check),
                   !.TotalChecks = @ + 1,
                   !.PassedChecks = IF check.Passed THEN @ + 1 ELSE @,
                   !.FailedChecks = IF check.Passed THEN @ ELSE @ + 1]

\* a loop that leaves the failed monitoring checks out of the result
RECURSIVE RecordAllPassed(_, _)
RecordAllPassed(result, checks) ==
    IF checks = <<>> THEN result
    ELSE IF Head(checks).Passed
         THEN RecordAllPassed(
                  [result EXCEPT !.CheckResults = Append(@, Head(checks)),
                                 !.TotalChecks = @ + 1,
                                 !.PassedChecks = @ + 1],
                  Tail(checks))
    ELSE RecordAllPassed(result, Tail(checks))

\* a loop that appends the monitoring checks last to first
RECURSIVE RecordAllReversed(_, _)
RecordAllReversed(result, checks) ==
    IF checks = <<>> THEN result
    ELSE LET rest == RecordAllReversed(result, Tail(checks))
             check == Head(checks)
         IN  [rest EXCEPT !.CheckResults = Append(@, check),
                          !.TotalChecks = @ + 1,
                          !.PassedChecks = IF check.Passed THEN @ + 1 ELSE @,
                          !.FailedChecks = IF check.Passed THEN @ ELSE @ + 1]

\* the loop that appends and counts the monitoring checks
RECURSIVE RecordAll(_, _)
RecordAll(result, checks) ==
    IF checks = <<>> THEN result
    ELSE RecordAll(Record(result, Head(checks)), Tail(checks))

\* the pass threshold of the score, in percent
PassThreshold == 80

\* a score computation whose threshold is exclusive
FinalizeExclusive(result) ==
    LET score == IF result.TotalChecks > 0
                 THEN F64MulInt(F64DivInts(result.PassedChecks, result.TotalChecks), 100)
                 ELSE result.HealthScore
    IN  [result EXCEPT !.HealthScore = score,
                       !.OverallPassed = ~F64Geq(F64FromInt(PassThreshold), score)]

\* a score computation that leaves the score a fraction of 1
FinalizeFraction(result) ==
    LET score == IF result.TotalChecks > 0
                 THEN F64DivInts(result.PassedChecks, result.TotalChecks)
                 ELSE result.HealthScore
    IN  [result EXCEPT !.HealthScore = score,
                       !.OverallPassed = F64Geq(score, F64FromInt(PassThreshold))]

\* a score computation whose verdict depends on the verdict already stored
FinalizeToggling(result) ==
    LET score == IF result.TotalChecks > 0
                 THEN F64MulInt(F64DivInts(result.PassedChecks, result.TotalChecks), 100)
                 ELSE result.HealthScore
    IN  [result EXCEPT !.HealthScore = score,
                       !.OverallPassed = (F64Geq(score, F64FromInt(PassThreshold))
                                          /\ ~result.OverallPassed)]

\* a score computation that passes the gate from 90 on
FinalizeNinety(result) ==
    LET score == IF result.TotalChecks > 0
                 THEN F64MulInt(F64DivInts(result.PassedChecks, result.TotalChecks), 100)
                 ELSE result.HealthScore
    IN  [result EXCEPT !.HealthScore = score,
                       !.OverallPassed = F64Geq(score, F64FromInt(90))]

\* "Calculate health score"
Finalize(result) ==
    LET score == IF result.TotalChecks > 0
                 THEN F64MulInt(F64DivInts(result.PassedChecks, result.TotalChecks), 100)
                 ELSE result.HealthScore
    IN  [result EXCEPT !.HealthScore = score,
                       !.OverallPassed = F64Geq(score, F64FromInt(PassThreshold))]

\* a decision whose GOOD band begins at 70
DecisionGoodFrom70(score) ==
    IF F64Geq(score, F64FromInt(90)) THEN "EXCELLENT"
    ELSE IF F64Geq(score, F64FromInt(70)) THEN "GOOD"
    ELSE IF F64Geq(score, F64FromInt(60)) THEN "FAIR"
    ELSE "POOR"

\* "Quality Gate Decision": the band printed for a score
Decision(score) ==
    IF F64Geq(score, F64FromInt(90)) THEN "EXCELLENT"
    ELSE IF F64Geq(score, F64FromInt(80)) THEN "GOOD"
    ELSE IF F64Geq(score, F64FromInt(60)) THEN "FAIR"
    ELSE "POOR"

\* a GateCheck that reports a failed gate only below the FAIR band
GateCheckErrorBelowFair(result) ==
    IF ~F64Geq(result.HealthScore, F64FromInt(60))
    THEN <<"cluster health check failed with score %.1f%%">>
    ELSE NoErr

\* the error GateCheck returns
GateCheckError(result) ==
    IF ~result.OverallPassed
    THEN <<"cluster health check failed with score %.1f%%">>
    ELSE NoErr

\* the check the "Pod Health" step records for CheckPods' error
PodHealth(podErr) ==
    IF podErr = NoErr
    THEN CheckResult("Pod Health", TRUE, <<"All pods are in Running or Succeeded state">>)
    ELSE CheckResult("Pod Health", FALSE, podErr)

\* a "Flux Resources" step that records an error as a passed check
FluxResourcesLenient(fluxErr) ==
    CheckResult("Flux Resources", TRUE, fluxErr)

\* the check the "Flux Resources" step records for CheckFlux' error
FluxResources(fluxErr) ==
    IF fluxErr = NoErr
    THEN CheckResult("Flux Resources", TRUE, <<"All HelmReleases and Kustomizations are Ready">>)
    ELSE CheckResult("Flux Resources", FALSE, fluxErr)

\* a record of one query that applies the FLUENT rule of Run
MonitoringCheckInverted(description, q) ==
    IF q.err # NoErr
    THEN CheckResult(description, FALSE, <<"Query error: ">> \o q.err)
    ELSE IF (q.value = "1") # HasPrefix(description, "FLUENT")
    THEN CheckResult(description, TRUE, <<"Healthy">>)
    ELSE CheckResult(description, FALSE, <<"Value: ", q.value, " (expected: 1)">>)

\* a record of one query that ignores the error and reads the value
MonitoringCheckValueOnly(description, q) ==
    IF q.value = "1"
    THEN CheckResult(description, TRUE, <<"Healthy">>)
    ELSE CheckResult(description, FALSE, <<"Value: ", q.value, " (expected: 1)">>)

\* the check runPrometheusChecks records for one query, given what
\* QueryPrometheus returned
MonitoringCheck(description, q) ==
    IF q.err # NoErr
    THEN CheckResult(description, FALSE, <<"Query error: ">> \o q.err)
    ELSE IF q.value = "1"
    THEN CheckResult(description, TRUE, <<"Healthy">>)
    ELSE CheckResult(description, FALSE, <<"Value: ", q.value, " (expected: 1)">>)

\* a lookup whose undecodable item is no failure
BitwardenFailureOnCommand(bw) ==
    IF bw = "cmdfail" THEN <<"Failed to get Bitwarden credentials: ", "exit status 1">>
    ELSE NoErr

\* the check runPrometheusChecks returns alone when the Bitwarden lookup
\* fails (NoErr: the lookup succeeded)
BitwardenFailure(bw) ==
    IF bw = "cmdfail" THEN <<"Failed to get Bitwarden credentials: ", "exit status 1">>
    ELSE IF bw = "garbage" THEN <<"Failed to parse Bitwarden JSON: ", "invalid character">>
    ELSE NoErr

(***************************************************************************)
(* monitoringcheck.Run: the line printed for one query.                    *)
(***************************************************************************)
\* a classification without the FLUENT rule
ClassifyPlain(description, value) ==
    IF value = "1" THEN "OK (1)" ELSE "FAIL (0)"

\* OK or FAIL for a returned value: "1" is OK, unless the name starts with
\* FLUENT, where everything but "1" is OK
Classify(description, value) ==
    IF value = "1"
    THEN (IF HasPrefix(description, "FLUENT") THEN "FAIL (0)" ELSE "OK (1)")
    ELSE (IF HasPrefix(description, "FLUENT") THEN "OK (1)" ELSE "FAIL (0)")

RunLine(description, q) ==
    IF q.err # NoErr
    THEN [name |-> description, text |-> "Error query"]
    ELSE [name |-> description, text |-> Classify(description, q.value)]

(***************************************************************************)
(* The state of one invocation of the program.                             *)
(***************************************************************************)
VARIABLES
    pc,            \* where the program is
    flags,         \* main: the parsed command-line flags
    env,           \* the environment variables
    kubeconfig,    \* environment: the kubeconfig file of the probes
    context,       \* environment: the answer of $HOME/.kube/config
    podAnswers,    \* environment: the pod listings the API server may return
    helmAnswers,   \* environment: the HelmRelease listings it may return
    kustomizationAnswers, \* environment: the Kustomization listings it may return
    promBase,      \* environment: the backend's answer to most queries
    promAlt,       \* environment: its answer to at most MaxAlt queries
    altLeft,       \* environment: how many queries may still get promAlt
    result,        \* GateCheck: *GateCheckResult
    gateErr,       \* main: the error GateCheck returned
    decision,      \* GateCheck: the quality gate band printed
    podErr,        \* GateCheck: podErr
    fluxErr,       \* GateCheck: fluxErr
    bwAnswer,      \* runPrometheusChecks, Run: what `bw get item' gave ("": not run)
    username,      \* runPrometheusChecks, Run: basic-auth user
    password,      \* runPrometheusChecks, Run: basic-auth password
    prometheus,    \* runPrometheusChecks, Run: endpoint
    cluster,       \* runPrometheusChecks, Run: cluster identifier of the queries
    shortCluster,  \* runPrometheusChecks, Run: the context name
    results,       \* runPrometheusChecks: []CheckResult
    allPassed,     \* runPrometheusChecks: allPassed
    idx,           \* runPrometheusChecks, Run: position in the query table
    description,   \* the query loops: query.Description of the last iteration
    value,         \* the query loops: result of the last iteration
    queryErr,      \* the query loops: err of the last iteration
    calls,         \* the calls made to the collaborators, in order
    out,           \* Run: the lines printed, one per query
    exitCode       \* the exit code of the process (-1: still running)

envVars == <<flags, env, kubeconfig, context, podAnswers, helmAnswers, kustomizationAnswers,
             promBase, promAlt>>
setupVars == <<bwAnswer, username, password, prometheus, cluster, shortCluster>>
loopVars == <<description, value, queryErr>>
promVars == <<setupVars, results, allPassed, idx, loopVars>>
gateVars == <<result, gateErr, decision, podErr, fluxErr>>
vars == <<pc, envVars, altLeft, gateVars, promVars, calls, out, exitCode>>

\* a Go string atom as a tuple of parts
Str(s) == IF s = "" THEN <<>> ELSE <<s>>

Call(fn) == [fn |-> fn, query |-> <<>>, auth |-> <<>>]

QueryCall(url, query, user, pass) ==
    [fn |-> "QueryPrometheus", query |-> query, auth |-> <<url, user, pass>>]

\* the flag sets: -gate-check, -check-pods, -check-flux, -bw, -f
AllFlags ==
    [gateCheck : BOOLEAN, checkPods : BOOLEAN, checkFlux : BOOLEAN,
     bitwarden : BOOLEAN, fqdn : {"", "example.com"}]

\* at most one mode flag, no -f
SingleModeFlags ==
    {f \in AllFlags :
        /\ f.fqdn = ""
        /\ Cardinality({m \in {"gateCheck", "checkPods", "checkFlux"} : f[m]}) <= 1}

\* only the Prometheus credentials are set
DefaultEnv ==
    [CLUSTERCHECK_BW |-> "", CLUSTERCHECK_FQDN |-> "", CLUSTER |-> "",
     PROMETHEUS_URL |-> "", PROM_USER |-> "prom-user", PROM_PASS |-> "prom-pass"]

\* nothing has run yet
Fresh ==
    /\ altLeft = MaxAlt
    /\ result = NewGateCheckResult
    /\ gateErr = NoErr
    /\ decision = ""
    /\ podErr = NoErr
    /\ fluxErr = NoErr
    /\ queryErr = NoErr
    /\ bwAnswer = ""
    /\ username = ""
    /\ password = ""
    /\ prometheus = ""
    /\ cluster = <<>>
    /\ shortCluster = <<>>
    /\ results = <<>>
    /\ allPassed = FALSE
    /\ idx = 0
    /\ calls = <<>>
    /\ out = <<>>
    /\ exitCode = -1

\* the state before main's first statement, but for the environment
Start ==
    /\ pc = "main"
    /\ description = ""
    /\ value = ""
    /\ Fresh

Init ==
    /\ flags \in SingleModeFlags
    /\ env = DefaultEnv
    /\ kubeconfig \in KubeConfigs
    /\ context \in ContextAnswers
    /\ podAnswers = PodListings
    /\ helmAnswers = FluxListings
    /\ kustomizationAnswers = FluxListings
    /\ \E backend \in PromBackends :
          /\ promBase = backend[1]
          /\ promAlt = backend[2]
    /\ Start

(***************************************************************************)
(* main: the mode is chosen by the first flag set of -gate-check,          *)
(* -check-pods, -check-flux; without any, the monitoring check runs.       *)
(***************************************************************************)
\* a main that looks at -check-pods before -gate-check
MainPodsFirst ==
    /\ pc = "main"
    /\ pc' = IF flags.checkPods THEN "check_pods"
             ELSE IF flags.gateCheck THEN "gate_pods"
             ELSE IF flags.checkFlux THEN "check_flux"
             ELSE "run"
    /\ UNCHANGED <<envVars, altLeft, gateVars, promVars, calls, out, exitCode>>

\* main up to the call of the mode's function
Main ==
    /\ pc = "main"
    /\ pc' = IF flags.gateCheck THEN "gate_pods"
             ELSE IF flags.checkPods THEN "check_pods"
             ELSE IF flags.checkFlux THEN "check_flux"
             ELSE "run"
    /\ UNCHANGED <<envVars, altLeft, gateVars, promVars, calls, out, exitCode>>

\* -check-pods: exit 1 when CheckPods returns an error
MainCheckPods ==
    /\ pc = "check_pods"
    /\ \E listing \in podAnswers :
          exitCode' = IF CheckPods(kubeconfig, listing) # NoErr THEN 1 ELSE 0
    /\ calls' = Append(calls, Call("CheckPods"))
    /\ pc' = "exit"
    /\ UNCHANGED <<envVars, altLeft, gateVars, promVars, out>>

\* -check-flux: exit 1 when CheckFlux returns an error
MainCheckFlux ==
    /\ pc = "check_flux"
    /\ \E hr \in helmAnswers, ks \in kustomizationAnswers :
          exitCode' = IF CheckFlux(kubeconfig, hr, ks) # NoErr THEN 1 ELSE 0
    /\ calls' = Append(calls, Call("CheckFlux"))
    /\ pc' = "exit"
    /\ UNCHANGED <<envVars, altLeft, gateVars, promVars, out>>

(***************************************************************************)
(* GateCheck.                                                              *)
(***************************************************************************)
\* a pod step that calls CheckPods a second time when it returned an error
GatePodsRetrying ==
    /\ pc = "gate_pods"
    /\ \E listing \in podAnswers : podErr' = CheckPods(kubeconfig, listing)
    /\ result' = Record(result, PodHealth(podErr'))
    /\ calls' = IF podErr' # NoErr
                THEN calls \o <<Call("CheckPods"), Call("CheckPods")>>
                ELSE Append(calls, Call("CheckPods"))
    /\ pc' = "gate_flux"
    /\ UNCHANGED <<envVars, altLeft, gateErr, decision, fluxErr, promVars, out, exitCode>>

\* "1. Pod Health Check"
GatePods ==
    /\ pc = "gate_pods"
    /\ \E listing \in podAnswers : podErr' = CheckPods(kubeconfig, listing)
    /\ result' = Record(result, PodHealth(podErr'))
    /\ calls' = Append(calls, Call("CheckPods"))
    /\ pc' = "gate_flux"
    /\ UNCHANGED <<envVars, altLeft, gateErr, decision, fluxErr, promVars, out, exitCode>>

\* "2. Flux Resources Check"
GateFlux ==
    /\ pc = "gate_flux"
    /\ \E hr \in helmAnswers, ks \in kustomizationAnswers :
          fluxErr' = CheckFlux(kubeconfig, hr, ks)
    /\ result' = Record(result, FluxResources(fluxErr'))
    /\ calls' = Append(calls, Call("CheckFlux"))
    /\ pc' = "gate_prom"
    /\ UNCHANGED <<envVars, altLeft, gateErr, decision, podErr, promVars, out, exitCode>>

\* runPrometheusChecks up to its query loop: the credentials, the cluster
\* identifier, the endpoint.  A failed Bitwarden lookup returns one failed
\* check at once.
PromSetup(bw) ==
    LET failure == BitwardenFailure(bw)
        ctx     == GetCurrentContext(context)
        short   == IF ctx.err # NoErr THEN <<"unknown">> ELSE Str(ctx.name)
    IN  IF failure # NoErr
        THEN /\ results' = <<CheckResult("Prometheus Authentication", FALSE, failure)>>
             /\ allPassed' = FALSE
             /\ username' = env.PROM_USER
             /\ password' = env.PROM_PASS
             /\ prometheus' = "https://127.0.0.1:9090"
             /\ pc' = "gate_merge"
             /\ UNCHANGED <<cluster, shortCluster, idx>>
        ELSE /\ username' = IF bw = "item" THEN BitwardenLogin.Username ELSE env.PROM_USER
             /\ password' = IF bw = "item" THEN BitwardenLogin.Password ELSE env.PROM_PASS
             /\ shortCluster' = short
             /\ cluster' = ResolveCluster(short, flags.fqdn, env)
             /\ prometheus' = ResolvePrometheus(env)
             /\ results' = <<>>
             /\ allPassed' = TRUE
             /\ idx' = 1
             /\ pc' = "gate_query"

GatePromSetup ==
    /\ pc = "gate_prom"
    /\ IF flags.bitwarden \/ env.CLUSTERCHECK_BW # ""
       THEN /\ \E bw \in BitwardenAnswers : PromSetup(bw) /\ bwAnswer' = bw
            /\ calls' = Append(calls, Call("GetBitwardenItemJSON"))
       ELSE /\ PromSetup("unused")
            /\ UNCHANGED <<bwAnswer, calls>>
    /\ UNCHANGED <<envVars, altLeft, gateVars, loopVars, out, exitCode>>

\* the backend answers the next query: promBase, or promAlt while the
\* environment's budget lasts
Answers == {promBase} \cup (IF altLeft > 0 THEN {promAlt} ELSE {})

AltLeftAfter(answer) == IF answer = promBase THEN altLeft ELSE altLeft - 1

\* the process ends by a run-time panic
Panic ==
    /\ pc' = "exit"
    /\ exitCode' = 2

\* one iteration of the loop of runPrometheusChecks
GateQuery ==
    /\ pc = "gate_query"
    /\ \E answer \in Answers :
          LET query == GateQueries(cluster, shortCluster)[idx]
              q     == QueryPrometheus(answer)
          IN  /\ calls' = Append(calls, QueryCall(prometheus, query.Query, username, password))
              /\ altLeft' = AltLeftAfter(answer)
              /\ description' = query.Description
              /\ IF q.panic
                 THEN /\ Panic
                      /\ UNCHANGED <<results, allPassed, idx, value, queryErr>>
                 ELSE /\ value' = q.value
                      /\ queryErr' = q.err
                      /\ results' = Append(results, MonitoringCheck(query.Description, q))
                      /\ allPassed' = (allPassed /\ MonitoringCheck(query.Description, q).Passed)
                      /\ idx' = idx + 1
                      /\ pc' = IF idx = Len(GateQueries(cluster, shortCluster))
                               THEN "gate_merge" ELSE "gate_query"
                      /\ UNCHANGED exitCode
    /\ UNCHANGED <<envVars, gateVars, setupVars, out>>

\* GateCheck after runPrometheusChecks returned: the monitoring checks are
\* appended and counted, the score and the decision computed, the summary
\* printed and the error returned
GateFinish ==
    /\ pc = "gate_merge"
    /\ result' = Finalize(RecordAll(result, results))
    /\ decision' = Decision(result'.HealthScore)
    /\ gateErr' = GateCheckError(result')
    /\ pc' = "gate_returned"
    /\ UNCHANGED <<envVars, altLeft, podErr, fluxErr, promVars, calls, out, exitCode>>

\* main after GateCheck: exit 1 on an error
MainGateExit ==
    /\ pc = "gate_returned"
    /\ exitCode' = IF gateErr # NoErr THEN 1 ELSE 0
    /\ pc' = "exit"
    /\ UNCHANGED <<envVars, altLeft, gateVars, promVars, calls, out>>

(***************************************************************************)
(* monitoringcheck.Run.                                                    *)
(***************************************************************************)
\* a Run that falls back to PROM_USER and PROM_PASS when the lookup fails
RunSetupKeepingEnv(bw) ==
    LET ctx   == GetCurrentContext(context)
        short == Str(ctx.name)
    IN  /\ username' = IF bw = "item" THEN BitwardenLogin.Username ELSE env.PROM_USER
        /\ password' = IF bw = "item" THEN BitwardenLogin.Password ELSE env.PROM_PASS
        /\ shortCluster' = short
        /\ cluster' = ResolveCluster(short, flags.fqdn, env)
        /\ prometheus' = ResolvePrometheus(env)
        /\ idx' = 1
        /\ pc' = "run_query"

\* Run up to its query loop: a failed Bitwarden lookup or an unresolved
\* context is printed and the run goes on
RunSetupWith(bw) ==
    LET ctx   == GetCurrentContext(context)
        short == Str(ctx.name)
    IN  /\ username' = IF bw = "unused" THEN env.PROM_USER
                       ELSE IF bw = "item" THEN BitwardenLogin.Username ELSE ""
        /\ password' = IF bw = "unused" THEN env.PROM_PASS
                       ELSE IF bw = "item" THEN BitwardenLogin.Password ELSE ""
        /\ shortCluster' = short
        /\ cluster' = ResolveCluster(short, flags.fqdn, env)
        /\ prometheus' = ResolvePrometheus(env)
        /\ idx' = 1
        /\ pc' = "run_query"

RunSetup ==
    /\ pc = "run"
    /\ IF flags.bitwarden \/ env.CLUSTERCHECK_BW # ""
       THEN /\ \E bw \in BitwardenAnswers : RunSetupWith(bw) /\ bwAnswer' = bw
            /\ calls' = Append(calls, Call("getBitwardenItemJSON"))
       ELSE /\ RunSetupWith("unused")
            /\ UNCHANGED <<bwAnswer, calls>>
    /\ UNCHANGED <<envVars, altLeft, gateVars, results, allPassed, loopVars, out, exitCode>>

\* one iteration of the loop of Run
RunQuery ==
    /\ pc = "run_query"
    /\ \E answer \in Answers :
          LET query == RunQueries(cluster, shortCluster)[idx]
              q     == QueryPrometheus(answer)
          IN  /\ calls' = Append(calls, QueryCall(prometheus, query.Query, username, password))
              /\ altLeft' = AltLeftAfter(answer)
              /\ description' = query.Description
              /\ IF q.panic
                 THEN /\ Panic
                      /\ UNCHANGED <<out, idx, value, queryErr>>
                 ELSE /\ value' = q.value
                      /\ queryErr' = q.err
                      /\ out' = Append(out, RunLine(query.Description, q))
                      /\ idx' = idx + 1
                      /\ pc' = IF idx = Len(RunQueries(cluster, shortCluster))
                               THEN "run_returned" ELSE "run_query"
                      /\ UNCHANGED exitCode
    /\ UNCHANGED <<envVars, gateVars, setupVars, results, allPassed>>

\* main after Run: the process ends normally
MainRunExit ==
    /\ pc = "run_returned"
    /\ exitCode' = 0
    /\ pc' = "exit"
    /\ UNCHANGED <<envVars, altLeft, gateVars, promVars, calls, out>>

Next ==
    \/ Main
    \/ MainCheckPods
    \/ MainCheckFlux
    \/ GatePods
    \/ GateFlux
    \/ GatePromSetup
    \/ GateQuery
    \/ GateFinish
    \/ MainGateExit
    \/ RunSetup
    \/ RunQuery
    \/ MainRunExit

Spec == Init /\ [][Next]_vars

(***************************************************************************)
(* The score of GateCheck over every number of checks up to MaxOutcomes:   *)
(* the counting steps of GateCheck on any sequence of outcomes, then the   *)
(* rest of GateCheck and of main.                                          *)
(***************************************************************************)
InitScore ==
    /\ flags = [gateCheck |-> TRUE, checkPods |-> FALSE, checkFlux |-> FALSE,
                bitwarden |-> FALSE, fqdn |-> ""]
    /\ env = DefaultEnv
    /\ kubeconfig = "ok"
    /\ context = CHOOSE c \in ContextAnswers : c.err = NoErr
    /\ podAnswers = PodListings
    /\ helmAnswers = FluxListings
    /\ kustomizationAnswers = FluxListings
    /\ promBase = Healthy
    /\ promAlt = Unhealthy
    /\ Start

\* GateCheck entered, none of its three steps modelled
ScoreEnter ==
    /\ pc = "main"
    /\ pc' = "score"
    /\ UNCHANGED <<envVars, altLeft, gateVars, promVars, calls, out, exitCode>>

\* one check appended and counted
ScoreRecord ==
    /\ pc = "score"
    /\ result.TotalChecks < MaxOutcomes
    /\ \E passed \in BOOLEAN :
          result' = Record(result, CheckResult("", passed, <<>>))
    /\ UNCHANGED <<pc, envVars, altLeft, gateErr, decision, podErr, fluxErr, promVars, calls,
                   out, exitCode>>

\* "Calculate health score" and what follows it
ScoreFinalize ==
    /\ pc = "score"
    /\ pc' = "gate_merge"
    /\ UNCHANGED <<envVars, altLeft, gateVars, promVars, calls, out, exitCode>>

NextScore ==
    \/ ScoreEnter
    \/ ScoreRecord
    \/ ScoreFinalize
    \/ GateFinish
    \/ MainGateExit

SpecScore == InitScore /\ [][NextScore]_vars

(***************************************************************************)
(* The body of the two query loops on every check name and every returned  *)
(* value: the line Run prints, the check runPrometheusChecks records.      *)
(***************************************************************************)
CheckNames ==
    {"", "FLUENT", "FLUEN", "fluentbit", "NOFLUENT", "FLUENTBIT_OK", "FLUENTD_OK",
     "FLUENTBITERRORS", "FLUENTDERRORS", "APISERVER", "CLUSTER", "GOLDPINGER", "KUBEDNS",
     "KUBELET", "NETWORKOPERATOR", "NODE", "STORAGECHECK", "PROMETHEUSAGENT", "SYSTEMPODS"}

ResultStrings == {"1", "1.0", "0.5", "0", "", "10"}

InitClassify ==
    /\ flags = [gateCheck |-> FALSE, checkPods |-> FALSE, checkFlux |-> FALSE,
                bitwarden |-> FALSE, fqdn |-> ""]
    /\ env = DefaultEnv
    /\ kubeconfig = "ok"
    /\ context = CHOOSE c \in ContextAnswers : c.err = NoErr
    /\ podAnswers = PodListings
    /\ helmAnswers = FluxListings
    /\ kustomizationAnswers = FluxListings
    /\ promBase = Healthy
    /\ promAlt = Unhealthy
    /\ pc = "classify"
    /\ description \in CheckNames
    /\ value \in ResultStrings
    /\ Fresh

\* QueryPrometheus returned value and no error
Returned == [value |-> value, err |-> NoErr, panic |-> FALSE]

\* the body of Run's loop
ClassifyPrint ==
    /\ pc = "classify"
    /\ out' = Append(out, RunLine(description, Returned))
    /\ pc' = "printed"
    /\ UNCHANGED <<envVars, altLeft, gateVars, promVars, calls, exitCode>>

\* the body of runPrometheusChecks' loop
ClassifyRecord ==
    /\ pc = "classify"
    /\ results' = Append(results, MonitoringCheck(description, Returned))
    /\ allPassed' = (allPassed /\ MonitoringCheck(description, Returned).Passed)
    /\ pc' = "recorded"
    /\ UNCHANGED <<envVars, altLeft, gateVars, setupVars, idx, loopVars, calls, out, exitCode>>

NextClassify ==
    \/ ClassifyPrint
    \/ ClassifyRecord

SpecClassify == InitClassify /\ [][NextClassify]_vars

(***************************************************************************)
(* The probes on every listing: each run has one pod listing, one          *)
(* HelmRelease listing and one Kustomization listing the API server        *)
(* returns, and a healthy Prometheus backend.                              *)
(***************************************************************************)
\* a successful listing without items
EmptyListing == [err |-> NoErr, items |-> <<>>]

InitProbes ==
    /\ flags \in {f \in SingleModeFlags : ~f.bitwarden}
    /\ env = DefaultEnv
    /\ kubeconfig \in KubeConfigs
    /\ context = CHOOSE c \in ContextAnswers : c.err = NoErr
    /\ podAnswers \in {{l} : l \in PodListings}
    /\ helmAnswers \in {{l} : l \in FluxListings}
    /\ kustomizationAnswers \in {{l} : l \in FluxListings}
    /\ flags.checkPods \/ podAnswers = {EmptyListing}
    /\ \/ flags.checkFlux
       \/ flags.gateCheck
       \/ (helmAnswers = {EmptyListing} /\ kustomizationAnswers = {EmptyListing})
    /\ promBase = Healthy
    /\ promAlt = Healthy
    /\ Start

SpecProbes == InitProbes /\ [][Next]_vars

(***************************************************************************)
(* QueryPrometheus on every response: each run has a backend that gives    *)
(* one answer, any combination of HTTP status, body and series, to all the *)
(* queries of a gate-check or default-mode run.                            *)
(***************************************************************************)
HttpStatuses == {200, 401, 500, 503}

SeriesValues ==
    {JString("1"), JString("0"), JString("0.5"), JString("0.8"), JString("0.9"), JOther}

\* data.result of a response: at most two series
SeriesLists == {<<>>} \cup {<<v>> : v \in SeriesValues} \cup (SeriesValues \X SeriesValues)

QueryAnswers ==
    {Refused, Timeout} \cup
    {Answer("ok", s, FALSE, <<>>) : s \in HttpStatuses} \cup
    {Answer("ok", s, TRUE, l) : s \in HttpStatuses, l \in SeriesLists}

InitQuery ==
    /\ flags \in {f \in SingleModeFlags : ~f.bitwarden /\ ~f.checkPods /\ ~f.checkFlux}
    /\ env = DefaultEnv
    /\ kubeconfig = "ok"
    /\ context = CHOOSE c \in ContextAnswers : c.err = NoErr
    /\ podAnswers = {EmptyListing}
    /\ helmAnswers = {EmptyListing}
    /\ kustomizationAnswers = {EmptyListing}
    /\ promBase \in QueryAnswers
    /\ promAlt = promBase
    /\ Start

NextQuery ==
    \/ Main
    \/ GatePods
    \/ GateFlux
    \/ GatePromSetup
    \/ GateQuery
    \/ GateFinish
    \/ MainGateExit
    \/ RunSetup
    \/ RunQuery
    \/ MainRunExit

SpecQuery == InitQuery /\ [][NextQuery]_vars

(***************************************************************************)
(* The configuration: every combination of the flags and of the            *)
(* environment variables, on a healthy cluster and backend.                *)
(***************************************************************************)
Environments ==
    [CLUSTERCHECK_BW : {"", "1"},
     CLUSTERCHECK_FQDN : {"", "env.example.org"},
     CLUSTER : {"", "my-cluster"},
     PROMETHEUS_URL : {"", "https://prometheus.example.org/api/v1/query"},
     PROM_USER : {"prom-user"},
     PROM_PASS : {"prom-pass"}]

InitConfig ==
    /\ flags \in AllFlags
    /\ env \in Environments
    /\ kubeconfig \in {"ok", "unloadable"}
    /\ context \in ContextAnswers
    /\ podAnswers = {EmptyListing}
    /\ helmAnswers = {EmptyListing}
    /\ kustomizationAnswers = {EmptyListing}
    /\ promBase = Healthy
    /\ promAlt = Healthy
    /\ Start

SpecConfig == InitConfig /\ [][Next]_vars

(***************************************************************************)
(* Properties.                                                             *)
(***************************************************************************)
\* GateCheck has returned to main
GateReturned == pc = "gate_returned" \/ (pc = "exit" /\ flags.gateCheck /\ exitCode # 2)

\* C1: in gate-check mode the process exits with code 0 if and only if
\* OverallPassed is true: GateCheck returns a non-nil error exactly when
\* OverallPassed is false, and main exits with code 1 exactly when GateCheck
\* returned an error.
C1_ExitCodeIffOverallPassed ==
    /\ GateReturned => (gateErr # NoErr <=> ~result.OverallPassed)
    /\ (pc = "exit" /\ flags.gateCheck) =>
          /\ exitCode = 0 <=> result.OverallPassed
          /\ exitCode = 1 <=> gateErr # NoErr

\* a gate-check run that exits 0 although one of its 14 checks failed
C1_Witness ==
    /\ pc = "exit"
    /\ flags.gateCheck
    /\ exitCode = 0
    /\ result.OverallPassed
    /\ result.TotalChecks = 14
    /\ result.FailedChecks = 1

\* C2: at the end of every gate-check run OverallPassed is true exactly when
\* HealthScore >= 80.0, a score of exactly 80 (4 of 5, 8 of 10) passes, and
\* for the TotalChecks > 0 of a run OverallPassed holds iff
\* 100 * PassedChecks >= 80 * TotalChecks.
C2_PassedIffScoreAtLeast80 ==
    GateReturned =>
        /\ result.OverallPassed <=> F64Geq(result.HealthScore, F64FromInt(80))
        /\ result.TotalChecks > 0 =>
              (result.OverallPassed <=> 100 * result.PassedChecks >= 80 * result.TotalChecks)
        /\ (result.TotalChecks = 5 /\ result.PassedChecks = 4) =>
              (result.HealthScore = F64FromInt(80) /\ result.OverallPassed)
        /\ (result.TotalChecks = 10 /\ result.PassedChecks = 8) =>
              (result.HealthScore = F64FromInt(80) /\ result.OverallPassed)

\* 8 of 10 checks passed: the score is exactly 80 and the gate is passed
C2_Witness ==
    /\ pc = "gate_returned"
    /\ result.TotalChecks = 10
    /\ result.PassedChecks = 8
    /\ result.HealthScore = F64FromInt(80)
    /\ result.OverallPassed

\* the score is the real number 100 * p / n up to float64 rounding: no
\* further from it than the float64 next to the score on either side
ScoreIs(score, p, n) ==
    IF p = 0 THEN score = F64Zero
    ELSE /\ F64CmpRat(F64Pred(score), 100 * p, n) <= 0
         /\ F64CmpRat(F64Succ(score), 100 * p, n) >= 0

\* C3: for every sequence of N recorded outcomes of which P passed,
\* HealthScore equals 100 * P / N (as a float64), is 0 when N = 0, and lies
\* in [0, 100].
C3_ScoreIsPercentage ==
    GateReturned =>
        /\ result.TotalChecks = 0 => result.HealthScore = F64Zero
        /\ result.TotalChecks > 0 =>
              ScoreIs(result.HealthScore, result.PassedChecks, result.TotalChecks)
        /\ F64Geq(result.HealthScore, F64Zero)
        /\ F64Geq(F64FromInt(100), result.HealthScore)

\* 1 of 3 checks passed: a score that is no integer
C3_Witness ==
    /\ pc = "gate_returned"
    /\ result.TotalChecks = 3
    /\ result.PassedChecks = 1
    /\ F64CmpRat(result.HealthScore, 33, 1) > 0
    /\ F64CmpRat(result.HealthScore, 34, 1) < 0

\* the names that start with "FLUENT", spelled out
FluentNames == {"FLUENT", "FLUENTBIT_OK", "FLUENTD_OK", "FLUENTBITERRORS", "FLUENTDERRORS"}

\* C4: in default mode, for every check name and every successfully
\* returned result string, the check is reported OK exactly when (result is
\* the literal "1") differs from (name starts with "FLUENT"); the test is
\* exact string equality, and every input is classified.
C4_DefaultModeClassification ==
    pc = "printed" =>
        /\ Len(out) = 1
        /\ out[1].name = description
        /\ out[1].text \in {"OK (1)", "FAIL (0)"}
        /\ out[1].text = "OK (1)" <=> ((value = "1") # (description \in FluentNames))

\* a FLUENT name with the value "1.0" is printed OK
C4_Witness ==
    /\ pc = "printed"
    /\ description = "FLUENTBITERRORS"
    /\ value = "1.0"
    /\ out[1].text = "OK (1)"

PastPods == flags.gateCheck /\ pc \notin {"main", "gate_pods"}
PastFlux == PastPods /\ pc # "gate_flux"
PastProm == PastFlux /\ pc \notin {"gate_prom", "gate_query"}

\* the positions of the result's entries with a name
Named(name) == {i \in DOMAIN result.CheckResults : result.CheckResults[i].Name = name}

\* the calls made to a collaborator
Called(fn) == {i \in DOMAIN calls : calls[i].fn = fn}

\* C6: in a gate-check run an error of the pod probe (of the Flux probe) is
\* recorded as exactly one failed check named "Pod Health" ("Flux
\* Resources") whose message is the error text, and every category after it
\* is still executed.
C6_ProbeErrorRecorded ==
    /\ (PastPods /\ podErr # NoErr) =>
          /\ Named("Pod Health") = {1}
          /\ result.CheckResults[1] = CheckResult("Pod Health", FALSE, podErr)
          /\ PastFlux => Cardinality(Called("CheckFlux")) = 1
          /\ PastProm => Called("QueryPrometheus") \cup Called("GetBitwardenItemJSON") # {}
    /\ (PastFlux /\ fluxErr # NoErr) =>
          /\ Named("Flux Resources") = {2}
          /\ result.CheckResults[2] = CheckResult("Flux Resources", FALSE, fluxErr)
          /\ PastProm => Called("QueryPrometheus") \cup Called("GetBitwardenItemJSON") # {}

\* both probes failed at the probe layer and all 12 queries were made
C6_Witness ==
    /\ pc = "gate_returned"
    /\ podErr = <<"failed to list pods: ", "connection refused">>
    /\ fluxErr = <<"failed to list HelmReleases: ", "no matches for kind">>
    /\ Cardinality(Called("QueryPrometheus")) = 12
    /\ result.FailedChecks = 2

\* the table of the gate-check run
GateTable == GateQueries(cluster, shortCluster)

\* C7: in the gate-check metric category a query that fails with a
\* transport, timeout or decode error is recorded as one failed check
\* carrying the error message, and the loop goes on: every later query of
\* the table is executed and recorded.
C7_QueryErrorRecorded ==
    (flags.gateCheck /\ idx > 1 /\ queryErr # NoErr /\ exitCode # 2) =>
        /\ Len(results) = idx - 1
        /\ description = GateTable[idx - 1].Description
        /\ results[idx - 1] = CheckResult(description, FALSE, <<"Query error: ">> \o queryErr)
        /\ idx <= Len(GateTable) <=> pc = "gate_query"
        /\ pc # "gate_query" =>
              /\ Len(results) = Len(GateTable)
              /\ Cardinality(Called("QueryPrometheus")) = Len(GateTable)

\* the third query timed out and the twelfth was still made and passed
C7_Witness ==
    /\ pc = "gate_merge"
    /\ Len(results) = 12
    /\ results[3] = CheckResult("FLUENTBIT_OK", FALSE,
                                <<"Query error: ", "Client.Timeout exceeded">>)
    /\ results[12].Passed

ProbeLevel(err) ==
    /\ err # NoErr
    /\ err[1] \in {"failed to build config", "failed to create clientset", "failed to list pods: "}

\* the positions of the failed entries of the result
FailedEntries == {i \in DOMAIN result.CheckResults : ~result.CheckResults[i].Passed}

\* C9: when the pod probe fails with a probe-level error, the Flux probe
\* finds all resources Ready and all 12 metric queries pass, the result has
\* TotalChecks = 14, PassedChecks = 13, FailedChecks = 1, a score of about
\* 92.86 and OverallPassed = true, and exactly one failed entry, "Pod
\* Health", with the probe's error text.
C9_PodProbeErrorScenario ==
    (/\ GateReturned
     /\ ProbeLevel(podErr)
     /\ fluxErr = NoErr
     /\ Len(results) = 12
     /\ \A i \in 1..12 : results[i].Passed) =>
        /\ result.TotalChecks = 14
        /\ result.PassedChecks = 13
        /\ result.FailedChecks = 1
        /\ F64CmpRat(result.HealthScore, 92855, 1000) >= 0
        /\ F64CmpRat(result.HealthScore, 92865, 1000) < 0
        /\ result.OverallPassed
        /\ gateErr = NoErr
        /\ FailedEntries = {1}
        /\ result.CheckResults[1] = CheckResult("Pod Health", FALSE, podErr)

\* the scenario: the pod listing is refused, 13 of 14 checks pass
C9_Witness ==
    /\ pc = "gate_returned"
    /\ podErr = <<"failed to list pods: ", "connection refused">>
    /\ fluxErr = NoErr
    /\ \A i \in 1..12 : results[i].Passed
    /\ result.PassedChecks = 13
    /\ decision = "EXCELLENT"

OneListing ==
    /\ Cardinality(podAnswers) = 1
    /\ Cardinality(helmAnswers) = 1
    /\ Cardinality(kustomizationAnswers) = 1

PodListing == CHOOSE l \in podAnswers : TRUE
HelmListing == CHOOSE l \in helmAnswers : TRUE
KustomizationListing == CHOOSE l \in kustomizationAnswers : TRUE

\* a resource's conditions hold a Ready condition with status True
HasReadyTrue(conds) ==
    \E i \in DOMAIN conds : conds[i].Type = "Ready" /\ conds[i].Status = "True"

\* CheckFlux gets to list the resources, and one of them is not Ready
ListedNotReady ==
    /\ kubeconfig = "ok"
    /\ HelmListing.err = NoErr
    /\ KustomizationListing.err = NoErr
    /\ \/ \E i \in DOMAIN HelmListing.items : ~HasReadyTrue(HelmListing.items[i])
       \/ \E i \in DOMAIN KustomizationListing.items :
             ~HasReadyTrue(KustomizationListing.items[i])

\* C11: every listed HelmRelease or Kustomization without a Ready condition
\* of status True, one without conditions and one without any Ready
\* condition included, is counted as not ready: CheckFlux returns an error
\* (check-flux mode exits 1, the gate check records "Flux Resources" as
\* failed) whenever a listed resource is not Ready.
C11_NotReadyIsAnError ==
    (OneListing /\ ListedNotReady) =>
        /\ (pc = "exit" /\ flags.checkFlux) => exitCode = 1
        /\ PastFlux =>
              /\ fluxErr # NoErr
              /\ ~result.CheckResults[2].Passed

\* the phases of a listing that CheckPods accepts
AllRunning(listing) ==
    \A i \in DOMAIN listing.items : listing.items[i] \in {"Running", "Succeeded"}

\* C12: CheckPods returns no error (pod-check mode exits 0) exactly when the
\* pod listing succeeded and every listed pod has phase Running or
\* Succeeded; a pod in another phase, or a probe-level error, makes it
\* return an error (pod-check mode exits 1).
C12_PodsExitCode ==
    (OneListing /\ pc = "exit" /\ flags.checkPods) =>
        /\ exitCode \in {0, 1}
        /\ exitCode = 0 <=>
              (kubeconfig = "ok" /\ PodListing.err = NoErr /\ AllRunning(PodListing))

\* pod-check mode exits 1 for one Running and one Pending pod
C12_Witness ==
    /\ pc = "exit"
    /\ flags.checkPods
    /\ kubeconfig = "ok"
    /\ podAnswers = {[err |-> NoErr, items |-> <<"Running", "Pending">>]}
    /\ exitCode = 1

\* C13: when the Flux probe finds zero HelmReleases and zero
\* Kustomizations, CheckFlux returns no error (check-flux mode exits 0) and
\* the gate check records "Flux Resources" as passed.
C13_NoResourcesPasses ==
    (/\ kubeconfig = "ok"
     /\ helmAnswers = {EmptyListing}
     /\ kustomizationAnswers = {EmptyListing}) =>
        /\ (pc = "exit" /\ flags.checkFlux) => exitCode = 0
        /\ PastFlux =>
              /\ fluxErr = NoErr
              /\ result.CheckResults[2] =
                    CheckResult("Flux Resources", TRUE,
                                <<"All HelmReleases and Kustomizations are Ready">>)

\* a gate check over a cluster without Flux resources records the check as
\* passed
C13_Witness ==
    /\ pc = "gate_returned"
    /\ kubeconfig = "ok"
    /\ helmAnswers = {EmptyListing}
    /\ kustomizationAnswers = {EmptyListing}
    /\ result.CheckResults[2].Passed
    /\ result.CheckResults[2].Name = "Flux Resources"

\* no mode flag is given
DefaultMode == ~flags.gateCheck /\ ~flags.checkPods /\ ~flags.checkFlux

\* the table of the default-mode run
RunTable == RunQueries(cluster, shortCluster)

\* the lines printed so far are those of the first queries of the table, one
\* per query, and no probe has been called
LinesInTableOrder ==
    /\ Len(out) <= Len(RunTable)
    /\ \A i \in DOMAIN out : out[i].name = RunTable[i].Description
    /\ Cardinality(Called("QueryPrometheus")) \in {Len(out), Len(out) + 1}
    /\ Called("CheckPods") \cup Called("CheckFlux") = {}

\* C14: default mode runs only the metric-query category, prints exactly
\* one line per query of the table in table order, and always terminates
\* with exit code 0, whatever the query results and query errors.
C14_DefaultModeExitsZero ==
    DefaultMode =>
        /\ pc \notin {"main", "run"} => LinesInTableOrder
        /\ pc = "exit" =>
              /\ exitCode = 0
              /\ Len(out) = Len(RunTable)
              /\ Cardinality(Called("QueryPrometheus")) = Len(RunTable)

\* C14 for the runs that no panic aborts: one line per query in table order
\* and exit code 0
C14_ExitsZeroUnlessAborted ==
    DefaultMode =>
        /\ pc \notin {"main", "run"} => LinesInTableOrder
        /\ (pc = "exit" /\ exitCode # 2) =>
              /\ exitCode = 0
              /\ Len(out) = Len(RunTable)
              /\ Cardinality(Called("QueryPrometheus")) = Len(RunTable)

\* a default-mode run with a failed query prints 12 lines and exits 0
C14_Witness ==
    /\ DefaultMode
    /\ pc = "exit"
    /\ exitCode = 0
    /\ Len(out) = 12
    /\ \E i \in DOMAIN out : out[i].text = "Error query"

\* QueryPrometheus has returned at least once, to either loop, and the
\* backend gives one answer to every query
QueryReturned == promAlt = promBase /\ idx > 1 /\ exitCode # 2

\* C15: QueryPrometheus returns an error, together with the value "0",
\* whenever the backend answers with a non-success HTTP status or with a
\* body that is not valid JSON.
C15_ServerErrorIsAnError ==
    (/\ QueryReturned
     /\ promBase.net = "ok"
     /\ (promBase.status \notin 200..299 \/ ~promBase.json)) =>
        /\ queryErr # NoErr
        /\ value = "0"

\* C15 for the bodies that do not decode, whatever the HTTP status: an
\* error and the value "0"
C15_UndecodableIsAnError ==
    (QueryReturned /\ promBase.net = "ok" /\ ~promBase.json) =>
        /\ queryErr = <<"invalid character">>
        /\ value = "0"

\* the status 500 with a body that is no JSON gives an error and "0"
C15_Witness ==
    /\ QueryReturned
    /\ promBase = Answer("ok", 500, FALSE, <<>>)
    /\ queryErr # NoErr
    /\ value = "0"

\* C16: QueryPrometheus returns "0" and no error when the backend reports
\* zero series, and otherwise the value string of the first returned series
\* unchanged.
C16_FirstSeriesOrSentinel ==
    (QueryReturned /\ promBase.net = "ok" /\ promBase.json) =>
        /\ queryErr = NoErr
        /\ value = IF promBase.series = <<>> THEN "0" ELSE promBase.series[1].str
        /\ promBase.series # <<>> => promBase.series[1].isString

\* of the series "0.8" and "0.9" the value "0.8" is returned
C16_Witness ==
    /\ QueryReturned
    /\ promBase.series = <<JString("0.8"), JString("0.9")>>
    /\ value = "0.8"
    /\ queryErr = NoErr

\* the parts of a sequence of parts, as a set
Parts(s) == {s[i] : i \in DOMAIN s}

\* the literal text of the query templates: the parts of the tables built
\* for an empty identifier
Literals ==
    LET gate == GateQueries(<<>>, <<>>)
        run  == RunQueries(<<>>, <<>>)
    IN  UNION {Parts(gate[i].Query) : i \in DOMAIN gate}
        \cup UNION {Parts(run[i].Query) : i \in DOMAIN run}

\* a query expression without its literal text: the label values put into
\* the template
LabelValue(query) ==
    LET literals == Literals
    IN  SelectSeq(query, LAMBDA part : part \notin literals)

\* a query expression carries an identifier as its label value, in the one
\* or the two places of its template
Carries(query, id) == LabelValue(query) \in {id, id \o id}

\* the queries made so far, in order
QueriesMade == SelectSeq(calls, LAMBDA c : c.fn = "QueryPrometheus")

\* the table of the run
Table == IF flags.gateCheck THEN GateTable ELSE RunTable

C18_EnvironmentFqdnOverridesFlag ==
    (/\ flags.fqdn # ""
     /\ env.CLUSTERCHECK_FQDN # ""
     /\ env.CLUSTER = ""
     /\ QueriesMade # <<>>) =>
        /\ cluster = shortCluster \o <<".", env.CLUSTERCHECK_FQDN>>
        /\ LabelValue(QueriesMade[1].query) = shortCluster \o <<".", env.CLUSTERCHECK_FQDN>>

\* what the code does for C18's case: both suffixes are appended, the
\* flag's first
C18_BothSuffixesAppended ==
    (/\ flags.fqdn # ""
     /\ env.CLUSTERCHECK_FQDN # ""
     /\ env.CLUSTER = ""
     /\ QueriesMade # <<>>) =>
        cluster = shortCluster \o <<".", flags.fqdn, ".", env.CLUSTERCHECK_FQDN>>

\* the identifier prod.example.com.env.example.org in the first query
C18_Witness ==
    /\ flags.fqdn = "example.com"
    /\ env.CLUSTERCHECK_FQDN = "env.example.org"
    /\ QueriesMade # <<>>
    /\ LabelValue(QueriesMade[1].query) =
          <<"prod", ".", "example.com", ".", "env.example.org">>

\* the positions of the passed entries of the result
PassedEntries == {i \in DOMAIN result.CheckResults : result.CheckResults[i].Passed}

\* C19: after each check outcome has been recorded and when GateCheck
\* returns, TotalChecks = PassedChecks + FailedChecks = the length of
\* CheckResults, PassedChecks is the number of entries with Passed = true
\* and FailedChecks the number with Passed = false.
C19_CountersAgree ==
    /\ result.TotalChecks = result.PassedChecks + result.FailedChecks
    /\ result.TotalChecks = Len(result.CheckResults)
    /\ result.PassedChecks = Cardinality(PassedEntries)
    /\ result.FailedChecks = Cardinality(FailedEntries)

\* a returned gate check with 11 passed and 3 failed entries
C19_Witness ==
    /\ pc = "gate_returned"
    /\ result.TotalChecks = 14
    /\ Cardinality(PassedEntries) = 11
    /\ Cardinality(FailedEntries) = 3

\* the names of the calls made so far, in order
CallOrder == [i \in DOMAIN calls |-> calls[i].fn]

\* C20: CheckResults preserves execution order in every gate-check run:
\* its first entry is "Pod Health", its second is "Flux Resources", and the
\* metric checks follow in the fixed order of the query table.
C20_ResultsInExecutionOrder ==
    flags.gateCheck =>
        /\ Len(calls) >= 1 => CallOrder[1] = "CheckPods"
        /\ Len(calls) >= 2 => CallOrder[2] = "CheckFlux"
        /\ \A i \in DOMAIN calls :
              i >= 3 => CallOrder[i] \in {"GetBitwardenItemJSON", "QueryPrometheus"}
        /\ Len(result.CheckResults) >= 1 => result.CheckResults[1].Name = "Pod Health"
        /\ Len(result.CheckResults) >= 2 => result.CheckResults[2].Name = "Flux Resources"
        /\ QueriesMade # <<>> =>
              /\ \A i \in DOMAIN results : results[i].Name = GateTable[i].Description
              /\ \A i \in DOMAIN QueriesMade : QueriesMade[i].query = GateTable[i].Query
        /\ \A i \in DOMAIN result.CheckResults :
              i >= 3 => result.CheckResults[i] = results[i - 2]
        /\ GateReturned => Len(result.CheckResults) = 2 + Len(results)

\* a returned gate check whose entries 3 and 14 are the first and the last
\* entry of the table, the last one failed
C20_Witness ==
    /\ pc = "gate_returned"
    /\ Len(result.CheckResults) = 14
    /\ result.CheckResults[3].Name = "APISERVER"
    /\ result.CheckResults[14].Name = "SYSTEMPODS"
    /\ ~result.CheckResults[14].Passed

\* the first series of the backend's answer has a value element that is no
\* string, or has none
FirstValueNotAString ==
    /\ promBase.net = "ok"
    /\ promBase.json
    /\ Len(promBase.series) > 0
    /\ ~promBase.series[1].isString

\* C21: no malformed metric response aborts the run: for every response
\* body that decodes as JSON, including one whose first series has a missing
\* or non-string value element, QueryPrometheus returns a value or an error,
\* and that outcome is recorded or printed instead of terminating the
\* process.
C21_DecodableBodyNeverAborts ==
    (promBase.net = "ok" /\ promBase.json) =>
        /\ exitCode # 2
        /\ \A i \in DOMAIN QueriesMade :
              IF flags.gateCheck THEN i \in DOMAIN results ELSE i \in DOMAIN out

\* C21 as the code has it: the run is aborted by the first query, with
\* nothing recorded or printed for it, exactly when the first series of a
\* decoded body has a value element that is no string; every other answer is
\* recorded or printed
C21_AbortsOnNonStringValue ==
    /\ exitCode = 2 =>
          /\ FirstValueNotAString
          /\ Len(QueriesMade) = 1
          /\ results = <<>>
          /\ out = <<>>
    /\ (FirstValueNotAString /\ QueriesMade # <<>>) => exitCode = 2
    /\ ~FirstValueNotAString =>
          \A i \in DOMAIN QueriesMade :
             IF flags.gateCheck THEN i \in DOMAIN results ELSE i \in DOMAIN out

\* a gate check aborted by a status-200 body whose only series has a value
\* that is no string: the two probes are recorded, no metric check is
\* recorded and no report is made
C21_Witness ==
    /\ flags.gateCheck
    /\ promBase = Answer("ok", 200, TRUE, <<JOther>>)
    /\ pc = "exit"
    /\ exitCode = 2
    /\ result.TotalChecks = 2
    /\ results = <<>>
    /\ decision = ""

\* the checks of the mode of the run have all been made: the two probes and
\* the 12 queries of a gate check (the queries unless the credential lookup
\* failed), the one probe of a probe mode, the 12 queries of the default mode
AllChecksRan ==
    IF flags.gateCheck
    THEN /\ Cardinality(Called("CheckPods")) = 1
         /\ Cardinality(Called("CheckFlux")) = 1
         /\ Len(QueriesMade) = Len(GateTable) \/ bwAnswer \in {"cmdfail", "garbage"}
    ELSE IF flags.checkPods THEN CallOrder = <<"CheckPods">>
    ELSE IF flags.checkFlux THEN CallOrder = <<"CheckFlux">>
    ELSE /\ Len(QueriesMade) = Len(RunTable)
         /\ Len(out) = Len(RunTable)

\* C22: if the current context cannot be resolved, the run is not aborted in
\* any mode: a placeholder identifier is used to parameterize the metric
\* queries and all checks still run.
C22_PlaceholderWhenContextUnresolved ==
    context.err # NoErr =>
        /\ exitCode # 2
        /\ QueriesMade # <<>> => shortCluster = <<"unknown">>
        /\ pc = "exit" => AllChecksRan

\* C22 as the code has it: without a context no mode is aborted and all
\* checks run; the queries of a gate check are parameterized with the
\* placeholder "unknown", those of the default mode with the empty string
C22_RunContinuesWithoutContext ==
    context.err # NoErr =>
        /\ exitCode # 2
        /\ QueriesMade # <<>> =>
              shortCluster = IF flags.gateCheck THEN <<"unknown">> ELSE <<>>
        /\ pc = "exit" => AllChecksRan

\* a default-mode run without a context that made and printed its 12
\* queries, each with the empty cluster identifier
C22_Witness ==
    /\ DefaultMode
    /\ context.err # NoErr
    /\ flags.fqdn = ""
    /\ env.CLUSTERCHECK_FQDN = ""
    /\ env.CLUSTER = ""
    /\ pc = "exit"
    /\ exitCode = 0
    /\ Len(out) = 12
    /\ cluster = <<>>
    /\ QueriesMade[12].query = RunQueries(<<>>, <<>>)[12].Query

\* the band of a score: the interval of the four it lies in
Band(score) ==
    IF F64Geq(score, F64FromInt(90)) /\ F64Geq(F64FromInt(100), score) THEN "EXCELLENT"
    ELSE IF F64Geq(score, F64FromInt(80)) /\ ~F64Geq(score, F64FromInt(90)) THEN "GOOD"
    ELSE IF F64Geq(score, F64FromInt(60)) /\ ~F64Geq(score, F64FromInt(80)) THEN "FAIR"
    ELSE IF F64Geq(score, F64Zero) /\ ~F64Geq(score, F64FromInt(60)) THEN "POOR"
    ELSE "none"

\* C23: the reported band is EXCELLENT for a score in [90, 100], GOOD for
\* [80, 90), FAIR for [60, 80) and POOR for [0, 60); the band never changes
\* OverallPassed, so the gate passes (exit code 0) exactly in the bands
\* EXCELLENT and GOOD.
C23_BandOfScore ==
    GateReturned =>
        /\ decision = Band(result.HealthScore)
        /\ result.TotalChecks > 0 =>
              decision = IF 100 * result.PassedChecks >= 90 * result.TotalChecks THEN "EXCELLENT"
                         ELSE IF 100 * result.PassedChecks >= 80 * result.TotalChecks THEN "GOOD"
                         ELSE IF 100 * result.PassedChecks >= 60 * result.TotalChecks THEN "FAIR"
                         ELSE "POOR"
        /\ result.OverallPassed <=> decision \in {"EXCELLENT", "GOOD"}
        /\ result.OverallPassed <=> F64Geq(result.HealthScore, F64FromInt(PassThreshold))
        /\ pc = "exit" => (exitCode = 0 <=> decision \in {"EXCELLENT", "GOOD"})

\* 3 of 4 checks passed: the score 75 is in the band FAIR and the exit code
\* is 1
C23_Witness ==
    /\ pc = "exit"
    /\ result.TotalChecks = 4
    /\ result.PassedChecks = 3
    /\ result.HealthScore = F64FromInt(75)
    /\ decision = "FAIR"
    /\ ~result.OverallPassed
    /\ exitCode = 1

\* the functions a run calls besides QueryPrometheus
ProbeFunctions == {"CheckPods", "CheckFlux", "GetBitwardenItemJSON", "getBitwardenItemJSON"}

\* C24: within one run every probe call and every metric query is attempted
\* at most once: a failed call is never retried, in the same category or in
\* a later one.
C24_AtMostOneAttempt ==
    LET made == QueriesMade
        table == Table
    IN  /\ \A fn \in ProbeFunctions : Cardinality(Called(fn)) <= 1
        /\ Len(made) <= Len(table)
        /\ \A i \in DOMAIN made : made[i].query = table[i].Query
        /\ \A i, j \in DOMAIN made : i # j => made[i].query # made[j].query
        /\ Len(calls) <= 3 + Len(table)

\* a returned gate check whose pod probe, Flux probe and seventh query all
\* failed: 14 calls were made, none of them twice
C24_Witness ==
    /\ pc = "gate_returned"
    /\ podErr # NoErr
    /\ fluxErr # NoErr
    /\ Len(results) = 12
    /\ results[7].Message[1] = "Query error: "
    /\ Len(calls) = 14
    /\ Len(QueriesMade) = 12

\* a fresh result that has the counters of r and nothing else of it
CountersOf(r) ==
    [NewGateCheckResult EXCEPT !.TotalChecks = r.TotalChecks,
                               !.PassedChecks = r.PassedChecks,
                               !.FailedChecks = r.FailedChecks]

\* C25: finalizing twice with no outcome recorded in between yields an
\* identical GateCheckResult: HealthScore and OverallPassed are a function of
\* the counters only, and computing them changes neither the counters nor
\* CheckResults.
C25_FinalizeIdempotent ==
    /\ [](GateReturned =>
            LET again == Finalize(result)
                fresh == Finalize(CountersOf(result))
            IN  /\ again = result
                /\ result.HealthScore = fresh.HealthScore
                /\ result.OverallPassed = fresh.OverallPassed)
    /\ [][pc = "gate_merge" =>
            LET merged == RecordAll(result, results)
            IN  /\ result'.TotalChecks = merged.TotalChecks
                /\ result'.PassedChecks = merged.PassedChecks
                /\ result'.FailedChecks = merged.FailedChecks
                /\ result'.CheckResults = merged.CheckResults]_vars

\* a passed gate check of 9 of 10 outcomes whose result a second score
\* computation leaves as it is
C25_Witness ==
    /\ pc = "gate_returned"
    /\ result.TotalChecks = 10
    /\ result.PassedChecks = 9
    /\ result.OverallPassed
    /\ Finalize(result) = result

\* the credential lookup of the run failed: the command, or the decoding of
\* its output
LookupFailed == bwAnswer \in {"cmdfail", "garbage"}

\* C26: with -bw or CLUSTERCHECK_BW set and the credential lookup or its
\* decoding failing in gate-check mode, no metric query is issued, the
\* monitoring category contributes exactly one failed check "Prometheus
\* Authentication" (TotalChecks = 3), and OverallPassed is false whatever the
\* pod and Flux outcomes are.
C26_FailedLookupFailsTheGate ==
    /\ bwAnswer # "" => (flags.bitwarden \/ env.CLUSTERCHECK_BW # "")
    /\ (flags.gateCheck /\ LookupFailed) =>
          /\ QueriesMade = <<>>
          /\ Len(results) = 1
          /\ results[1].Name = "Prometheus Authentication"
          /\ ~results[1].Passed
          /\ GateReturned =>
                /\ result.TotalChecks = 3
                /\ Named("Prometheus Authentication") = {3}
                /\ FailedEntries \ {1, 2} = {3}
                /\ ~result.OverallPassed
                /\ gateErr # NoErr
          /\ pc = "exit" => exitCode = 1

\* a gate check with healthy pods and healthy Flux resources whose
\* credential item did not decode: 2 of 3 checks passed and the gate failed
C26_Witness ==
    /\ pc = "exit"
    /\ flags.gateCheck
    /\ bwAnswer = "garbage"
    /\ podErr = NoErr
    /\ fluxErr = NoErr
    /\ result.TotalChecks = 3
    /\ result.PassedChecks = 2
    /\ ~result.OverallPassed
    /\ QueriesMade = <<>>
    /\ exitCode = 1

\* C27: in a gate-check run in which all 12 table queries are executed (14
\* checks in total), OverallPassed is true exactly when at most 2 of the 14
\* checks failed: 12 of 14 passes the gate and 11 of 14 fails it, whichever
\* checks the failures are.
C27_AtMostTwoOfFourteen ==
    (GateReturned /\ result.TotalChecks = 14) =>
        /\ Len(result.CheckResults) = 14
        /\ result.OverallPassed <=> Cardinality(FailedEntries) <= 2
        /\ result.OverallPassed <=> result.FailedChecks <= 2
        /\ result.PassedChecks = 12 => result.OverallPassed
        /\ result.PassedChecks = 11 => ~result.OverallPassed
        /\ pc = "exit" => (exitCode = 0 <=> Cardinality(FailedEntries) <= 2)

\* 14 outcomes of which the fifth and the ninth failed: the gate is passed
C27_Witness ==
    /\ pc = "exit"
    /\ result.TotalChecks = 14
    /\ FailedEntries = {5, 9}
    /\ result.OverallPassed
    /\ exitCode = 0

\* 14 outcomes of which the first, the fifth and the ninth failed: the gate
\* is failed
C27_WitnessFailed ==
    /\ pc = "exit"
    /\ result.TotalChecks = 14
    /\ FailedEntries = {1, 5, 9}
    /\ ~result.OverallPassed
    /\ exitCode = 1

GateSteps == {"gate_pods", "gate_flux", "gate_prom", "gate_query", "gate_merge", "gate_returned"}
RunSteps == {"run", "run_query", "run_returned"}

\* the mode the flags select: the first set of -gate-check, -check-pods,
\* -check-flux, and the default mode without any
Mode ==
    IF flags.gateCheck THEN "gate-check"
    ELSE IF flags.checkPods THEN "check-pods"
    ELSE IF flags.checkFlux THEN "check-flux"
    ELSE "default"

\* C29: exactly one mode runs per invocation, selected with the precedence
\* gate-check, then check-pods, then check-flux, then the default mode; when
\* several mode flags are given only the highest-precedence mode is executed
\* and it alone decides the exit code.
C29_OneModeByPrecedence ==
    /\ pc \in GateSteps => Mode = "gate-check"
    /\ pc = "check_pods" => Mode = "check-pods"
    /\ pc = "check_flux" => Mode = "check-flux"
    /\ pc \in RunSteps => Mode = "default"
    /\ Mode # "gate-check" =>
          /\ result = NewGateCheckResult
          /\ gateErr = NoErr
          /\ decision = ""
          /\ Called("GetBitwardenItemJSON") = {}
    /\ Mode # "default" =>
          /\ out = <<>>
          /\ Called("getBitwardenItemJSON") = {}
    /\ Mode = "check-pods" => CallOrder \in {<<>>, <<"CheckPods">>}
    /\ Mode = "check-flux" => CallOrder \in {<<>>, <<"CheckFlux">>}
    /\ Mode = "default" => Called("CheckPods") \cup Called("CheckFlux") = {}
    /\ pc = "exit" =>
          /\ Mode = "gate-check" => exitCode = IF result.OverallPassed THEN 0 ELSE 1
          /\ Mode = "check-pods" =>
                exitCode \in {IF CheckPods(kubeconfig, l) # NoErr THEN 1 ELSE 0 : l \in podAnswers}
          /\ Mode = "check-flux" =>
                exitCode \in {IF CheckFlux(kubeconfig, hr, ks) # NoErr THEN 1 ELSE 0 :
                                 hr \in helmAnswers, ks \in kustomizationAnswers}
          /\ Mode = "default" => exitCode = 0

\* all three mode flags are given and the kubeconfig does not load: the gate
\* check alone ran and passed with 12 of 14 checks, where -check-pods and
\* -check-flux would both have exited with 1
C29_Witness ==
    /\ flags.gateCheck
    /\ flags.checkPods
    /\ flags.checkFlux
    /\ kubeconfig = "unloadable"
    /\ pc = "exit"
    /\ CallOrder[1] = "CheckPods"
    /\ CallOrder[2] = "CheckFlux"
    /\ result.TotalChecks = 14
    /\ result.FailedChecks = 2
    /\ exitCode = 0

\* C30: in default mode a failed credential-source lookup does not stop the
\* run: all queries are still issued, but with an empty username and
\* password, discarding PROM_USER and PROM_PASS from the environment.
C30_FailedLookupEmptiesCredentials ==
    (Mode = "default" /\ LookupFailed) =>
        /\ env.PROM_USER # "" /\ env.PROM_PASS # ""
        /\ username = ""
        /\ password = ""
        /\ \A i \in DOMAIN QueriesMade : QueriesMade[i].auth = <<prometheus, "", "">>
        /\ pc \in {"run_query", "run_returned", "exit"}
        /\ pc = "run_query" => Len(QueriesMade) = idx - 1
        /\ pc \in {"run_returned", "exit"} =>
              /\ Len(QueriesMade) = Len(RunTable)
              /\ Len(out) = Len(RunTable)
        /\ pc = "exit" => exitCode = 0

\* a default-mode run with -bw whose bw command failed: the 12 queries were
\* made without credentials although PROM_USER and PROM_PASS are set
C30_Witness ==
    /\ Mode = "default"
    /\ flags.bitwarden
    /\ bwAnswer = "cmdfail"
    /\ env.PROM_USER = "prom-user"
    /\ pc = "exit"
    /\ exitCode = 0
    /\ Len(QueriesMade) = 12
    /\ QueriesMade[1].auth[2] = ""
    /\ QueriesMade[12].auth[3] = ""

=============================================================================
